---- MODULE Spec2Model ----
(***************************************************************************)
(* Model of SwapSmith's swap orchestration core:                           *)
(*   - DCAScheduler  (src/bot/src/services/dca-scheduler.ts)               *)
(*   - OrderMonitor  (src/unnamed/part_005, bot/src/services/order-monitor)*)
(* sharing the orders / watched_orders tables of one datastore.            *)
(*                                                                         *)
(* SpecDCA     : several scheduler instances against one datastore.        *)
(*               Time is counted in minutes (the scheduler computes its    *)
(*               deadlines with setMinutes / setHours).                    *)
(* SpecMonitor : one OrderMonitor, its callers, the aggregator and the     *)
(*               datastore.  Time is counted in seconds (every constant    *)
(*               of the monitor is a multiple of 1000 ms).  A pollOrder    *)
(*               call is a frame that moves at its two awaits: the         *)
(*               getOrderStatus answer, read when it arrives, and the      *)
(*               settling of the two updates, after which the listener     *)
(*               call, untrackOrder and the finally block run in one step. *)
(*               loadPendingOrders reads both tables at once and enters    *)
(*               the rows in a later step.                                 *)
(*   - the user-scoped and the admin API routes of the frontend            *)
(*     (src/frontend/app/api, src/unnamed/part_002..004): a request is     *)
(*     handled in one step, from its headers to its response.              *)
(*   - the aggregator client (src/bot/src/services/sideshift-client.ts):   *)
(*     a call is made, and ends when the aggregator's answer is there.  A  *)
(*     response body is the kinds of the values of the fields by which     *)
(*     the schemas differ.                                                 *)
(*   - the limit-order worker (bot/src/workers/limitOrderWorker.ts), of    *)
(*     which the repository's sources here hold no code: its tick is       *)
(*     modelled from the armed-to-fire pipeline of the specification,      *)
(*     for one limit order and one price snapshot, with time in minutes.   *)
(*   - the lifecycle of the two timer-driven components: start() and       *)
(*     stop() of OrderMonitor and of DCAScheduler, with the intervals      *)
(*     setInterval has armed and clearInterval has not cleared.            *)
(***************************************************************************)
EXTENDS Integers, Sequences, FiniteSets, Bags, TLC

(***************************************************************************)
(* Program constants                                                       *)
(***************************************************************************)
RETRY_DELAY_MINUTES == 5

MAX_PROCESSING_TIME_MINUTES == 10

MinutesPerHour == 60

(***************************************************************************)
(* Bounds of the model                                                     *)
(***************************************************************************)
\* last minute of the scheduler's clock
MaxTime == 16

\* number of order ids the aggregator can hand out / the callers can use
MaxOrders == 2

Instances == {"A", "B"}

Plans == {1}

OrderIds == 1 .. MaxOrders

NonTerminal == {"pending", "waiting", "processing"}

TERMINAL_STATUSES == {"settled", "expired", "refunded", "failed"}

Statuses == NonTerminal \cup TERMINAL_STATUSES

NoRow == "none"

VARIABLES
    \* ---- datastore (shared) ----
    orders,         \* orders table: order id -> status, or NoRow
    watchedOrders,  \* watched_orders table: order id -> last_status, or NoRow
    \* ---- DCA scheduler ----
    clock,          \* wall clock, minutes
    plans,          \* dca_schedules table: plan -> row
    wallet,         \* users table: does the plan's owner have a walletAddress
    rowLock,        \* row lock on a dca_schedules row: holding instance or "free"
    sched,          \* per instance: the processSchedules call in progress
    execs,          \* executeSchedule calls in flight
    nextOrderId,    \* next id the aggregator hands out on createOrder
    orderPlan,      \* history: the plan whose execution inserted the orders row (0: none)
    lastClaim,      \* history: per plan, the minute of the latest claim, the number
                    \* of claims so far and the sentinel the latest claim wrote
    orphan,         \* history: the plan's latest claim was lost in a crash
    \* ---- order monitor ----
    mnow,           \* Date.now(), seconds
    tickTimer,      \* is the setInterval timer of the tick loop armed
    tickDue,        \* has TICK_INTERVAL passed since the timer was armed or fired
    tracked,        \* the tracked Map, as the sequence of its values (object
                    \* references) in insertion order
    heap,           \* the TrackedOrder objects: reference -> fields
    activePollCount,
    polls,          \* pollOrder calls in flight (a bag of their frames)
    loader,         \* the loadPendingOrders / reconcile call in progress
    adding,         \* addWatchedOrder calls in flight, per order id
    orderCreatedAt, \* created_at of the order's rows, seconds
    aggStatus,      \* the aggregator's status of the order, or NoRow
    notified,       \* history: per order, newStatus of the latest onStatusChange call
    pausedUntil,    \* history: end of the pause window a 429 answer asks for
    terminalSeen,   \* history: a poll of the order has observed a terminal status
    \* ---- API routes ----
    web,            \* the request handled last, its response and the data access it made
    \* ---- aggregator client ----
    client,         \* the call made last, the aggregator's answer and the call's outcome
    \* ---- limit-order worker ----
    limit,          \* the limit order, the price snapshot, the worker's time and its last decision
    \* ---- lifecycle ----
    life            \* per component: the timer handle it holds and the intervals that are armed

dcaVars == <<clock, plans, wallet, rowLock, sched, execs, nextOrderId, orderPlan, lastClaim, orphan>>

dbVars == <<orders, watchedOrders>>

monVars == <<mnow, tickTimer, tickDue, tracked, heap, activePollCount, polls, loader,
             adding, orderCreatedAt, aggStatus, notified, pausedUntil, terminalSeen>>

auxVars == <<web, client, limit, life>>

vars == <<orders, watchedOrders, clock, plans, wallet, rowLock, sched, execs,
          nextOrderId, orderPlan, lastClaim, orphan, mnow, tickTimer, tickDue, tracked,
          heap, activePollCount, polls, loader, adding, orderCreatedAt, aggStatus,
          notified, pausedUntil, terminalSeen, web, client, limit, life>>

(***************************************************************************)
(* DCA scheduler                                                           *)
(***************************************************************************)
IdleSched == [pc |-> "idle", rows |-> {}]

NoClaim == [at |-> -1, n |-> 0, lock |-> -1]

\* WHERE is_active = 1 AND next_execution_at <= now
IsDue(p, now) == plans[p].isActive /\ plans[p].nextExecutionAt <= now

\* a mutation of the query below: the same WHERE clause without row locking
SelectDueUnlocked(now) == {p \in Plans : IsDue(p, now)}

\* SELECT ... FOR UPDATE SKIP LOCKED: the due rows no open transaction holds
SelectForUpdateSkipLocked(now) == {p \in Plans : IsDue(p, now) /\ rowLock[p] = "free"}

\* a mutation of calculateNextExecution: the interval is taken as minutes
calculateNextExecutionMinutes(intervalHours) == clock + intervalHours

\* calculateNextExecution: now + intervalHours
calculateNextExecution(intervalHours) == clock + intervalHours * MinutesPerHour

\* a mutation of scheduleRetry's deadline: the retry waits for an interval of an hour
RetryTimeNextHour == clock + MinutesPerHour

\* scheduleRetry's deadline: now + RETRY_DELAY_MINUTES
RetryTime == clock + RETRY_DELAY_MINUTES

\* a mutation of the lock sentinel: the window is the retry delay
LockTimeRetry == clock + RETRY_DELAY_MINUTES

\* a mutation of the lock sentinel: no processing window
LockTimeNow == clock

\* the lock sentinel: now + MAX_PROCESSING_TIME_MINUTES
LockTime == clock + MAX_PROCESSING_TIME_MINUTES

SetNext(p, t) == [plans EXCEPT ![p].nextExecutionAt = t]

DcaInit ==
    /\ clock = 0
    /\ plans \in [Plans -> [isActive : {TRUE}, nextExecutionAt : {0},
                            ordersExecuted : {0}, intervalHours : {1}]]
    /\ wallet \in [Plans -> BOOLEAN]
    /\ rowLock = [p \in Plans |-> "free"]
    /\ sched = [i \in Instances |-> IdleSched]
    /\ execs = {}
    /\ nextOrderId = 1
    /\ orderPlan = [o \in OrderIds |-> 0]
    /\ lastClaim = [p \in Plans |-> NoClaim]
    /\ orphan = [p \in Plans |-> FALSE]

DbInit ==
    /\ orders = [o \in OrderIds |-> NoRow]
    /\ watchedOrders = [o \in OrderIds |-> NoRow]

\* processSchedules, lines 31-36: read now, open the transaction, select and
\* lock the due rows
ProcessSchedulesSelect(i) ==
    /\ sched[i].pc = "idle"
    /\ LET rows == SelectForUpdateSkipLocked(clock) IN
        /\ sched' = [sched EXCEPT ![i] = [pc |-> "tx", rows |-> rows]]
        /\ rowLock' = [p \in Plans |-> IF p \in rows THEN i ELSE rowLock[p]]
    /\ UNCHANGED <<clock, plans, wallet, execs, nextOrderId, orderPlan, lastClaim, orphan>>
    /\ UNCHANGED dbVars
    /\ UNCHANGED monVars
    /\ UNCHANGED auxVars

\* processSchedules, lines 38-57: write the lock sentinel on the selected rows,
\* commit (which releases the row locks) and start executeSchedule for each
ProcessSchedulesCommit(i) ==
    /\ sched[i].pc = "tx"
    /\ LET rows == sched[i].rows IN
        /\ plans' = [p \in Plans |->
                        IF p \in rows THEN [plans[p] EXCEPT !.nextExecutionAt = LockTime]
                        ELSE plans[p]]
        /\ rowLock' = [p \in Plans |-> IF rowLock[p] = i THEN "free" ELSE rowLock[p]]
        /\ execs' = execs \cup
                {[plan |-> p, inst |-> i, claimedAt |-> clock, stage |-> "getUser",
                  intervalHours |-> plans[p].intervalHours, orderId |-> 0] : p \in rows}
        /\ lastClaim' = [p \in Plans |->
                            IF p \in rows
                            THEN [at |-> clock, n |-> lastClaim[p].n + 1, lock |-> LockTime]
                            ELSE lastClaim[p]]
    /\ sched' = [sched EXCEPT ![i] = IdleSched]
    /\ UNCHANGED <<clock, wallet, nextOrderId, orderPlan>>
    /\ orphan' = [p \in Plans |-> IF p \in sched[i].rows THEN FALSE ELSE orphan[p]]
    /\ UNCHANGED dbVars
    /\ UNCHANGED monVars
    /\ UNCHANGED auxVars

\* processSchedules, lines 58-60: the transaction throws; it is rolled back and
\* the error is logged
ProcessSchedulesFail(i) ==
    /\ sched[i].pc = "tx"
    /\ rowLock' = [p \in Plans |-> IF rowLock[p] = i THEN "free" ELSE rowLock[p]]
    /\ sched' = [sched EXCEPT ![i] = IdleSched]
    /\ UNCHANGED <<clock, plans, wallet, execs, nextOrderId, orderPlan, lastClaim, orphan>>
    /\ UNCHANGED dbVars
    /\ UNCHANGED monVars
    /\ UNCHANGED auxVars

\* an UPDATE of a dca_schedules row waits for the row lock of an open transaction
CanUpdate(p) == rowLock[p] = "free"

\* executeSchedule, lines 65-70: load the user; without a wallet address
\* releaseLock reschedules at now + interval and the execution ends
GetUser(e) ==
    /\ e \in execs /\ e.stage = "getUser"
    /\ IF wallet[e.plan]
       THEN /\ execs' = (execs \ {e}) \cup {[e EXCEPT !.stage = "createQuote"]}
            /\ UNCHANGED plans
       ELSE /\ CanUpdate(e.plan)
            /\ plans' = SetNext(e.plan, calculateNextExecution(e.intervalHours))
            /\ execs' = execs \ {e}
    /\ UNCHANGED <<clock, wallet, rowLock, sched, nextOrderId, orderPlan, lastClaim, orphan>>
    /\ UNCHANGED dbVars
    /\ UNCHANGED monVars
    /\ UNCHANGED auxVars

\* executeSchedule, lines 126-129 with scheduleRetry, lines 141-150
ScheduleRetry(e) ==
    /\ CanUpdate(e.plan)
    /\ plans' = SetNext(e.plan, RetryTime)
    /\ execs' = execs \ {e}

\* executeSchedule, lines 72-82: request the quote
CreateQuote(e, ok) ==
    /\ e \in execs /\ e.stage = "createQuote"
    /\ IF ok
       THEN /\ execs' = (execs \ {e}) \cup {[e EXCEPT !.stage = "createOrder"]}
            /\ UNCHANGED plans
       ELSE ScheduleRetry(e)
    /\ UNCHANGED <<clock, wallet, rowLock, sched, nextOrderId, orderPlan, lastClaim, orphan>>
    /\ UNCHANGED dbVars
    /\ UNCHANGED monVars
    /\ UNCHANGED auxVars

\* executeSchedule, lines 84-88: create the order at the aggregator
CreateOrder(e, ok) ==
    /\ e \in execs /\ e.stage = "createOrder"
    /\ IF ok
       THEN /\ nextOrderId <= MaxOrders
            /\ execs' = (execs \ {e}) \cup
                    {[e EXCEPT !.stage = "transaction", !.orderId = nextOrderId]}
            /\ nextOrderId' = nextOrderId + 1
            /\ UNCHANGED plans
       ELSE /\ ScheduleRetry(e)
            /\ UNCHANGED nextOrderId
    /\ UNCHANGED <<clock, wallet, rowLock, sched, orderPlan, lastClaim, orphan>>
    /\ UNCHANGED dbVars
    /\ UNCHANGED monVars
    /\ UNCHANGED auxVars

\* executeSchedule, lines 98-117: insert the orders row with status pending and
\* the watched_orders row with last_status pending, on conflict do nothing
InsertOrderRows(o) ==
    /\ orders' = [orders EXCEPT ![o] = "pending"]
    /\ watchedOrders' = [watchedOrders EXCEPT ![o] = IF @ = NoRow THEN "pending" ELSE @]

\* a mutation of the transaction below: the orders row is inserted but
\* orders_executed is not incremented
RecordExecutionNoCount(e) ==
    /\ InsertOrderRows(e.orderId)
    /\ plans' = plans

\* executeSchedule, lines 90-122: one transaction inserts the orders row, the
\* watched_orders row (on conflict do nothing) and increments orders_executed
RecordExecution(e) ==
    /\ InsertOrderRows(e.orderId)
    /\ plans' = [plans EXCEPT ![e.plan].ordersExecuted = @ + 1]

\* executeSchedule, lines 90-129: the transaction commits, or it fails, is
\* rolled back and the plan is scheduled for a retry
CommitExecution(e, ok) ==
    /\ e \in execs /\ e.stage = "transaction"
    /\ CanUpdate(e.plan)
    /\ IF ok
       THEN /\ RecordExecution(e)
            /\ orderPlan' = [orderPlan EXCEPT ![e.orderId] = e.plan]
            /\ execs' = execs \ {e}
       ELSE /\ ScheduleRetry(e)
            /\ UNCHANGED <<orderPlan, orders, watchedOrders>>
    /\ UNCHANGED <<clock, wallet, rowLock, sched, nextOrderId, lastClaim, orphan>>
    /\ UNCHANGED monVars
    /\ UNCHANGED auxVars

\* the executions of plan p in flight
ExecsOf(p) == {e \in execs : e.plan = p}

\* the process of instance i dies and is restarted: its open transaction is
\* rolled back and its executions in flight are lost.  A plan is orphaned when
\* the lost execution was the only one of the plan and came from its latest
\* claim, and nothing has rescheduled the plan since that claim.
Crash(i) ==
    /\ \E e \in execs : e.inst = i
    /\ \A e \in execs : e.inst = i => plans[e.plan].nextExecutionAt <= MaxTime
    /\ execs' = {e \in execs : e.inst # i}
    /\ rowLock' = [p \in Plans |-> IF rowLock[p] = i THEN "free" ELSE rowLock[p]]
    /\ sched' = [sched EXCEPT ![i] = IdleSched]
    /\ orphan' = [p \in Plans |->
                    IF \E e \in ExecsOf(p) :
                          /\ e.inst = i
                          /\ ExecsOf(p) = {e}
                          /\ e.claimedAt = lastClaim[p].at
                          /\ plans[p].nextExecutionAt = lastClaim[p].lock
                    THEN TRUE ELSE orphan[p]]
    /\ UNCHANGED <<clock, plans, wallet, nextOrderId, orderPlan, lastClaim>>
    /\ UNCHANGED dbVars
    /\ UNCHANGED monVars
    /\ UNCHANGED auxVars

\* a minute passes
MinutePasses ==
    /\ clock < MaxTime
    /\ clock' = clock + 1
    /\ UNCHANGED <<plans, wallet, rowLock, sched, execs, nextOrderId, orderPlan, lastClaim, orphan>>
    /\ UNCHANGED dbVars
    /\ UNCHANGED monVars
    /\ UNCHANGED auxVars

DcaNext ==
    \/ \E i \in Instances : ProcessSchedulesSelect(i)
    \/ \E i \in Instances : ProcessSchedulesCommit(i)
    \/ \E i \in Instances : ProcessSchedulesFail(i)
    \/ \E e \in execs : GetUser(e)
    \/ \E e \in execs, ok \in BOOLEAN : CreateQuote(e, ok)
    \/ \E e \in execs, ok \in BOOLEAN : CreateOrder(e, ok)
    \/ \E e \in execs, ok \in BOOLEAN : CommitExecution(e, ok)
    \/ \E i \in Instances : Crash(i)
    \/ MinutePasses

(***************************************************************************)
(* Order monitor                                                           *)
(***************************************************************************)
MAX_CONCURRENT == 5

\* TICK_INTERVAL, in seconds
TICK_INTERVAL == 10

\* the pause a 429 answer without Retry-After asks for, in seconds
DEFAULT_RETRY_AFTER == 60

\* Date.now() when the model starts: far enough from the epoch for an entry
\* with lastChecked = 0 to be due whatever its age
StartTime == 900

\* the monitor's clock runs from StartTime to StartTime + MaxSeconds
MaxSeconds == 15

\* pollOrder calls in flight at once
MaxPolls == 2

\* TrackedOrder objects alive at once
MaxObjs == 2

\* addWatchedOrder calls in flight at once, per order
MaxAdding == 1

\* the statuses the aggregator's orders go through in the model
StatusesInPlay == {"pending", "waiting", "expired"}

\* the order ids the monitor's callers use
MonOrders == {1}

ObjIds == 1 .. MaxObjs

Min(a, b) == IF a < b THEN a ELSE b

Max(a, b) == IF a > b THEN a ELSE b

Range(q) == {q[k] : k \in 1 .. Len(q)}

\* the aggregator's state machine
AggregatorTransitions ==
    {<<"pending", "waiting">>, <<"waiting", "processing">>,
     <<"processing", "settled">>, <<"processing", "refunded">>,
     <<"processing", "failed">>,
     <<"pending", "expired">>, <<"waiting", "expired">>, <<"processing", "expired">>}

\* a mutation of getBackoffInterval: an age on a threshold keeps the
\* shorter interval
getBackoffIntervalInclusive(age) ==
    IF age <= 5 * 60 THEN 15
    ELSE IF age <= 30 * 60 THEN 60
    ELSE IF age <= 2 * 3600 THEN 5 * 60
    ELSE 15 * 60

\* getBackoffInterval, in seconds
getBackoffInterval(age) ==
    IF age < 5 * 60 THEN 15
    ELSE IF age < 30 * 60 THEN 60
    ELSE IF age < 2 * 3600 THEN 5 * 60
    ELSE 15 * 60

\* time passes in steps of the shortest polling interval, which is longer than
\* TICK_INTERVAL: the timer has a tick due whenever time has passed since it
\* was armed or fired
TimeStep == getBackoffInterval(0)

NullObj == [orderId |-> 0, createdAt |-> 0, lastChecked |-> 0, lastStatus |-> NoRow]

IdleLoader == [pc |-> "idle", reconcile |-> FALSE, rows |-> {}]

\* the order ids that are keys of the tracked Map t over heap h
KeysOf(t, h) == {h[t[k]].orderId : k \in 1 .. Len(t)}

\* tracked.has(orderId)
Has(o) == o \in KeysOf(tracked, heap)


FreeObjs(h) == {r \in ObjIds : h[r] = NullObj}

NewRef(h) == CHOOSE r \in FreeObjs(h) : \A q \in FreeObjs(h) : r <= q

\* an object nothing refers to any more is gone
Collect(h, t, pl) ==
    [r \in ObjIds |->
        IF r \in Range(t) \/ (\E f \in BagToSet(pl) : f.obj = r) THEN h[r] ELSE NullObj]

\* tracked.set(orderId, {...}) for an order id that is not a key
MapSet(st, o, createdAt, status) ==
    LET r == NewRef(st.h) IN
        [t |-> Append(st.t, r),
         h |-> [st.h EXCEPT ![r] = [orderId |-> o, createdAt |-> createdAt,
                                    lastChecked |-> 0, lastStatus |-> status]]]

\* tracked.delete(orderId)
MapDelete(t, h, o) == SelectSeq(t, LAMBDA r : h[r].orderId # o)

\* Array.prototype.slice(0, end)
JsSlice(q, end) ==
    LET n == Len(q)
        e == IF end < 0 THEN Max(n + end, 0) ELSE Min(end, n)
    IN  SubSeq(q, 1, e)

\* the frame of a pollOrder call that has issued getOrderStatus for the
\* TrackedOrder object r
NewFrame(h, r) ==
    [order |-> h[r].orderId, obj |-> r, stage |-> "request", old |-> NoRow, new |-> NoRow]

OneFrame(f) == SetToBag({f})

\* a mutation of reconcile: only the due orders of the batch are polled
StartPollsDueWithin(h, batch, bound) ==
    LET due == SelectSeq(batch, LAMBDA r : mnow - h[r].lastChecked
                                             >= getBackoffInterval(mnow - h[r].createdAt))
    IN  /\ activePollCount + Len(due) <= bound
        /\ activePollCount' = activePollCount + Len(due)
        /\ polls' = polls (+) SetToBag({NewFrame(h, r) : r \in Range(due)})

\* pollOrder, lines 870-872, for every object of the batch: count the poll and
\* issue getOrderStatus; the model holds at most bound calls in flight
StartPollsWithin(h, batch, bound) ==
    /\ activePollCount + Len(batch) <= bound
    /\ activePollCount' = activePollCount + Len(batch)
    /\ polls' = polls (+) SetToBag({NewFrame(h, r) : r \in Range(batch)})

\* the same within the bound of the monitor's specification
StartPolls(h, batch) == StartPollsWithin(h, batch, MaxPolls)

MonInit ==
    /\ mnow = StartTime
    /\ tickTimer = FALSE
    /\ tickDue = FALSE
    /\ tracked = <<>>
    /\ heap = [r \in ObjIds |-> NullObj]
    /\ activePollCount = 0
    /\ polls = EmptyBag
    /\ loader = IdleLoader
    /\ adding = [o \in OrderIds |-> 0]
    /\ orderCreatedAt = [o \in OrderIds |-> 0]
    /\ aggStatus = [o \in OrderIds |-> NoRow]
    /\ notified = [o \in OrderIds |-> NoRow]
    /\ pausedUntil = 0
    /\ terminalSeen = [o \in OrderIds |-> FALSE]

\* ---- the monitor's surroundings ----

\* a caller creates an order at the aggregator and inserts its orders row
CreateOrderEntry(o) ==
    /\ aggStatus[o] = NoRow
    /\ aggStatus' = [aggStatus EXCEPT ![o] = "pending"]
    /\ orders' = [orders EXCEPT ![o] = "pending"]
    /\ orderCreatedAt' = [orderCreatedAt EXCEPT ![o] = mnow]
    /\ UNCHANGED <<watchedOrders, mnow, tickTimer, tickDue, tracked, heap, activePollCount,
                   polls, loader, adding, notified, pausedUntil, terminalSeen>>
    /\ UNCHANGED dcaVars
    /\ UNCHANGED auxVars

\* a DCA execution creates an order at the aggregator and records it
DcaOrderRecorded(o) ==
    /\ aggStatus[o] = NoRow
    /\ aggStatus' = [aggStatus EXCEPT ![o] = "pending"]
    /\ InsertOrderRows(o)
    /\ orderCreatedAt' = [orderCreatedAt EXCEPT ![o] = mnow]
    /\ UNCHANGED <<mnow, tickTimer, tickDue, tracked, heap, activePollCount,
                   polls, loader, adding, notified, pausedUntil, terminalSeen>>
    /\ UNCHANGED dcaVars
    /\ UNCHANGED auxVars

\* the order moves on at the aggregator
AggregatorAdvance(o, s) ==
    /\ <<aggStatus[o], s>> \in AggregatorTransitions
    /\ aggStatus' = [aggStatus EXCEPT ![o] = s]
    /\ UNCHANGED <<mnow, tickTimer, tickDue, tracked, heap, activePollCount, polls,
                   loader, adding, orderCreatedAt, notified, pausedUntil, terminalSeen>>
    /\ UNCHANGED dbVars
    /\ UNCHANGED dcaVars
    /\ UNCHANGED auxVars

\* time passes
AdvanceTime ==
    /\ mnow + TimeStep <= StartTime + MaxSeconds
    /\ mnow' = mnow + TimeStep
    /\ tickDue' = tickTimer
    /\ UNCHANGED <<tickTimer, tracked, heap, activePollCount, polls, loader,
                   adding, orderCreatedAt, aggStatus, notified, pausedUntil, terminalSeen>>
    /\ UNCHANGED dbVars
    /\ UNCHANGED dcaVars
    /\ UNCHANGED auxVars

\* ---- OrderMonitor ----

start ==
    /\ ~tickTimer
    /\ tickTimer' = TRUE
    /\ tickDue' = FALSE
    /\ UNCHANGED <<mnow, tracked, heap, activePollCount, polls, loader, adding,
                   orderCreatedAt, aggStatus, notified, pausedUntil, terminalSeen>>
    /\ UNCHANGED dbVars
    /\ UNCHANGED dcaVars
    /\ UNCHANGED auxVars

stop ==
    /\ tickTimer
    /\ tickTimer' = FALSE
    /\ tickDue' = FALSE
    /\ UNCHANGED <<mnow, tracked, heap, activePollCount, polls, loader, adding,
                   orderCreatedAt, aggStatus, notified, pausedUntil, terminalSeen>>
    /\ UNCHANGED dbVars
    /\ UNCHANGED dcaVars
    /\ UNCHANGED auxVars

\* trackOrder of an order that is not tracked: enter it in the Map and start
\* addWatchedOrder without awaiting it
trackOrder(o) ==
    /\ aggStatus[o] # NoRow
    /\ ~Has(o)
    /\ FreeObjs(heap) # {}
    /\ adding[o] < MaxAdding
    /\ LET st == MapSet([t |-> tracked, h |-> heap], o, mnow, "pending") IN
        /\ tracked' = st.t
        /\ heap' = st.h
    /\ adding' = [adding EXCEPT ![o] = @ + 1]
    /\ UNCHANGED <<mnow, tickTimer, tickDue, activePollCount, polls, loader,
                   orderCreatedAt, aggStatus, notified, pausedUntil, terminalSeen>>
    /\ UNCHANGED dbVars
    /\ UNCHANGED dcaVars
    /\ UNCHANGED auxVars

\* the addWatchedOrder call of trackOrder settles: the row is inserted (on
\* conflict do nothing), or the call rejects and the error is logged
addWatchedOrder(o, ok) ==
    /\ adding[o] > 0
    /\ adding' = [adding EXCEPT ![o] = @ - 1]
    /\ watchedOrders' = IF ok /\ watchedOrders[o] = NoRow
                        THEN [watchedOrders EXCEPT ![o] = "pending"]
                        ELSE watchedOrders
    /\ UNCHANGED <<orders, mnow, tickTimer, tickDue, tracked, heap, activePollCount, polls,
                   loader, orderCreatedAt, aggStatus, notified, pausedUntil, terminalSeen>>
    /\ UNCHANGED dcaVars
    /\ UNCHANGED auxVars

\* untrackOrder, called by pollOrder only: the Map without orderId's entry
untrackOrder(t, h, orderId) == MapDelete(t, h, orderId)

\* getPendingOrders: the orders rows with a non-terminal status
PendingOrders ==
    {[id |-> o, status |-> orders[o], table |-> "orders"] :
        o \in {x \in OrderIds : orders[x] \in NonTerminal}}

\* getPendingWatchedOrders: the watched_orders rows with a non-terminal status
PendingWatched ==
    {[id |-> o, status |-> watchedOrders[o], table |-> "watched_orders"] :
        o \in {x \in OrderIds : watchedOrders[x] \in NonTerminal}}

\* a mutation of loadPendingOrders: a row is entered whether or not its order id
\* is a key of the Map
RECURSIVE LoadRowsAgain(_, _, _)
LoadRowsAgain(st, rows, o) ==
    IF o > MaxOrders THEN st
    ELSE IF (\E row \in rows : row.id = o) /\ FreeObjs(st.h) # {}
         THEN LET row == CHOOSE x \in rows : x.id = o
              IN  LoadRowsAgain(MapSet(st, o, orderCreatedAt[o], row.status), rows, o + 1)
         ELSE LoadRowsAgain(st, rows, o + 1)

\* loadPendingOrders, lines 781-792 and 796-807: enter every row whose order
\* id is not a key of the Map, from order id o on
RECURSIVE LoadRows(_, _, _)
LoadRows(st, rows, o) ==
    IF o > MaxOrders THEN st
    ELSE IF (\E row \in rows : row.id = o) /\ o \notin KeysOf(st.t, st.h)
         THEN LET row == CHOOSE x \in rows : x.id = o
              IN  LoadRows(MapSet(st, o, orderCreatedAt[o], row.status), rows, o + 1)
         ELSE LoadRows(st, rows, o + 1)

\* the Map st after the orders rows, then the watched_orders rows, are entered
LoadBothFrom(st, rows) ==
    LoadRows(LoadRows(st, {row \in rows : row.table = "orders"}, 1),
             {row \in rows : row.table = "watched_orders"}, 1)

\* the same from the monitor's Map
LoadBoth(rows) == LoadBothFrom([t |-> tracked, h |-> heap], rows)

\* enough free objects to load the rows
CanLoad(rows) ==
    Cardinality({row.id : row \in rows} \ KeysOf(tracked, heap)) <= Cardinality(FreeObjs(heap))

\* loadPendingOrders is called (by reconcile when rec); the two tables are
\* read
loadPendingOrders(rec) ==
    /\ loader.pc = "idle"
    /\ loader' = [pc |-> "reading", reconcile |-> rec,
                  rows |-> PendingOrders \cup PendingWatched]
    /\ UNCHANGED <<mnow, tickTimer, tickDue, tracked, heap, activePollCount, polls, adding,
                   orderCreatedAt, aggStatus, notified, pausedUntil, terminalSeen>>
    /\ UNCHANGED dbVars
    /\ UNCHANGED dcaVars
    /\ UNCHANGED auxVars

\* loadPendingOrders, lines 781-809, and reconcile, lines 823-824: the rows
\* of all == "both" tables are entered, or of the orders table only when the
\* second query rejects, or none when the first query rejects; reconcile then
\* polls every tracked order
LoadedPendingWithin(all, bound) ==
    /\ loader.pc = "reading"
    /\ LET rows == CASE all = "both" -> loader.rows
                     [] all = "orders" -> {row \in loader.rows : row.table = "orders"}
                     [] OTHER -> {}
           st == LoadBoth(rows)
       IN  /\ CanLoad(rows)
           /\ tracked' = st.t
           /\ heap' = st.h
           /\ IF loader.reconcile
              THEN StartPollsWithin(st.h, st.t, bound)
              ELSE UNCHANGED <<activePollCount, polls>>
    /\ loader' = IdleLoader
    /\ UNCHANGED <<mnow, tickTimer, tickDue, adding,
                   orderCreatedAt, aggStatus, notified, pausedUntil, terminalSeen>>
    /\ UNCHANGED dbVars
    /\ UNCHANGED dcaVars
    /\ UNCHANGED auxVars

\* the same within the bound of the monitor's specification
LoadedPending(all) == LoadedPendingWithin(all, MaxPolls)

\* a mutation of tick: an order that was never polled is not due
IsDuePollAgain(ord) ==
    /\ ord.lastChecked > 0
    /\ mnow - ord.lastChecked >= getBackoffInterval(mnow - ord.createdAt)

\* tick, lines 850-856: is the order due for a poll
IsDuePoll(ord) == mnow - ord.lastChecked >= getBackoffInterval(mnow - ord.createdAt)

\* tick, lines 846-865: the timer fires; the due orders are collected in Map
\* order, cut to the concurrency cap and polled
tickWithin(bound) ==
    /\ tickTimer
    /\ tickDue
    /\ tickDue' = FALSE
    /\ LET toPoll == SelectSeq(tracked, LAMBDA r : IsDuePoll(heap[r]))
           batch == JsSlice(toPoll, MAX_CONCURRENT - activePollCount)
       IN  StartPollsWithin(heap, batch, bound)
    /\ UNCHANGED <<mnow, tickTimer, tracked, heap, loader, adding,
                   orderCreatedAt, aggStatus, notified, pausedUntil, terminalSeen>>
    /\ UNCHANGED dbVars
    /\ UNCHANGED dcaVars
    /\ UNCHANGED auxVars

\* the same within the bound of the monitor's specification
tick == tickWithin(MaxPolls)

\* the ways getOrderStatus throws: a failed request, or a 429 answer
Failures == {"error", "rateLimited"}

\* a mutation of pollOrder: lastChecked is set before getOrderStatus answers
pollOrderThrowsChecked(f, a) ==
    /\ BagIn(f, polls) /\ f.stage = "request"
    /\ polls' = polls (-) OneFrame(f)
    /\ activePollCount' = activePollCount - 1
    /\ heap' = Collect([heap EXCEPT ![f.obj].lastChecked = mnow], tracked, polls')
    /\ pausedUntil' = IF a = "rateLimited" THEN mnow + DEFAULT_RETRY_AFTER ELSE pausedUntil
    /\ UNCHANGED <<mnow, tickTimer, tickDue, tracked, loader, adding,
                   orderCreatedAt, aggStatus, notified, terminalSeen>>
    /\ UNCHANGED dbVars
    /\ UNCHANGED dcaVars
    /\ UNCHANGED auxVars

\* pollOrder, lines 895-901: getOrderStatus throws; the error is logged and
\* the poll ends
pollOrderThrows(f, a) ==
    /\ BagIn(f, polls) /\ f.stage = "request"
    /\ polls' = polls (-) OneFrame(f)
    /\ activePollCount' = activePollCount - 1
    /\ heap' = Collect(heap, tracked, polls')
    /\ pausedUntil' = IF a = "rateLimited" THEN mnow + DEFAULT_RETRY_AFTER ELSE pausedUntil
    /\ UNCHANGED <<mnow, tickTimer, tickDue, tracked, loader, adding,
                   orderCreatedAt, aggStatus, notified, terminalSeen>>
    /\ UNCHANGED dbVars
    /\ UNCHANGED dcaVars
    /\ UNCHANGED auxVars

\* pollOrder, lines 872-885 and 899-901: getOrderStatus returns the order's
\* status at the aggregator; lastChecked is set; on a status other than
\* lastStatus, lastStatus is set and the two updates are started, otherwise
\* the poll ends
pollOrderReturns(f) ==
    /\ BagIn(f, polls) /\ f.stage = "request"
    /\ LET old == heap[f.obj].lastStatus
           new == aggStatus[f.order]
           h1 == [heap EXCEPT ![f.obj].lastChecked = mnow]
       IN  /\ IF new # old
              THEN /\ polls' = (polls (-) OneFrame(f)) (+)
                           OneFrame([f EXCEPT !.stage = "persist", !.old = old, !.new = new])
                   /\ heap' = [h1 EXCEPT ![f.obj].lastStatus = new]
                   /\ UNCHANGED activePollCount
              ELSE /\ polls' = polls (-) OneFrame(f)
                   /\ heap' = Collect(h1, tracked, polls')
                   /\ activePollCount' = activePollCount - 1
           /\ terminalSeen' = [terminalSeen EXCEPT ![f.order] = @ \/ new \in TERMINAL_STATUSES]
    /\ UNCHANGED <<mnow, tickTimer, tickDue, tracked, loader, adding,
                   orderCreatedAt, aggStatus, notified, pausedUntil>>
    /\ UNCHANGED dbVars
    /\ UNCHANGED dcaVars
    /\ UNCHANGED auxVars

\* updateOrderStatus: when it resolves, the orders row, if there is one,
\* carries the new status
updateOrderStatus(o, status, ok) ==
    IF ok /\ orders[o] # NoRow THEN [orders EXCEPT ![o] = status] ELSE orders

\* updateWatchedOrderStatus: the same for the watched_orders row
updateWatchedOrderStatus(o, status, ok) ==
    IF ok /\ watchedOrders[o] # NoRow THEN [watchedOrders EXCEPT ![o] = status]
    ELSE watchedOrders

\* a mutation of pollOrder: the listener is not called
pollOrderSettlesSilent(f, okO, okW, throws) ==
    /\ BagIn(f, polls) /\ f.stage = "persist"
    /\ orders' = updateOrderStatus(f.order, f.new, okO)
    /\ watchedOrders' = updateWatchedOrderStatus(f.order, f.new, okW)
    /\ tracked' = IF ~throws /\ f.new \in TERMINAL_STATUSES
                  THEN untrackOrder(tracked, heap, f.order) ELSE tracked
    /\ polls' = polls (-) OneFrame(f)
    /\ heap' = Collect(heap, tracked', polls')
    /\ activePollCount' = activePollCount - 1
    /\ UNCHANGED <<mnow, tickTimer, tickDue, loader, adding,
                   orderCreatedAt, aggStatus, notified, pausedUntil, terminalSeen>>
    /\ UNCHANGED dcaVars
    /\ UNCHANGED auxVars

\* pollOrder, lines 882-901: the two updates settle, each resolved (okO, okW)
\* or rejected; the listener is called; when it returns and the status is
\* terminal the order is untracked; when it throws the error is logged; the
\* poll ends
pollOrderSettles(f, okO, okW, throws) ==
    /\ BagIn(f, polls) /\ f.stage = "persist"
    /\ orders' = updateOrderStatus(f.order, f.new, okO)
    /\ watchedOrders' = updateWatchedOrderStatus(f.order, f.new, okW)
    /\ notified' = [notified EXCEPT ![f.order] = f.new]
    /\ tracked' = IF ~throws /\ f.new \in TERMINAL_STATUSES
                  THEN untrackOrder(tracked, heap, f.order) ELSE tracked
    /\ polls' = polls (-) OneFrame(f)
    /\ heap' = Collect(heap, tracked', polls')
    /\ activePollCount' = activePollCount - 1
    /\ UNCHANGED <<mnow, tickTimer, tickDue, loader, adding,
                   orderCreatedAt, aggStatus, pausedUntil, terminalSeen>>
    /\ UNCHANGED dcaVars
    /\ UNCHANGED auxVars

MonNext ==
    \/ \E o \in MonOrders : CreateOrderEntry(o)
    \/ \E o \in MonOrders : DcaOrderRecorded(o)
    \/ \E o \in MonOrders, s \in StatusesInPlay : AggregatorAdvance(o, s)
    \/ AdvanceTime
    \/ start
    \/ stop
    \/ \E o \in MonOrders : trackOrder(o)
    \/ \E o \in MonOrders, ok \in BOOLEAN : addWatchedOrder(o, ok)
    \/ \E rec \in BOOLEAN : loadPendingOrders(rec)
    \/ \E all \in {"both", "orders", "none"} : LoadedPending(all)
    \/ tick
    \/ \E f \in BagToSet(polls), a \in Failures : pollOrderThrows(f, a)
    \/ \E f \in BagToSet(polls) : pollOrderReturns(f)
    \/ \E f \in BagToSet(polls), okO \in BOOLEAN, okW \in BOOLEAN, throws \in BOOLEAN :
          pollOrderSettles(f, okO, okW, throws)

(***************************************************************************)
(* API routes                                                              *)
(***************************************************************************)
\* the uids the identity provider knows; "adm" has a row in the admins table
Uids == {"u1", "u2", "adm"}

\* a token as the routes see it: does the identity provider verify it (sig),
\* does it split in three parts with a payload that parses (jwt), and the
\* uid its payload names ("" when it names none)
Tokens ==
    [sig : {TRUE}, jwt : {TRUE}, uid : Uids]
       \cup [sig : {FALSE}, jwt : {TRUE}, uid : Uids \cup {""}]
       \cup [sig : {FALSE}, jwt : {FALSE}, uid : {""}]

\* adminAuth.verifyIdToken: the decoded token, or a throw
verifyIdToken(idToken) ==
    IF idToken.sig THEN [ok |-> TRUE, uid |-> idToken.uid] ELSE [ok |-> FALSE, uid |-> ""]

NoAccess == [fn |-> "none", arg |-> ""]

NoRequest == [endpoint |-> "none", req |-> <<>>, status |-> 0, access |-> NoAccess]

WebInit == web = NoRequest

\* ---- the user-scoped routes ----

UserEndpoints ==
    {"GET /api/swap-history", "GET /api/chat/history", "POST /api/chat/history",
     "DELETE /api/chat/history", "GET /api/user/settings", "POST /api/user/settings"}

\* the data-access function of each route
DataAccess ==
    [ep \in UserEndpoints |->
        CASE ep = "GET /api/swap-history" -> "getSwapHistory"
          [] ep = "GET /api/chat/history" -> "getChatHistory"
          [] ep = "POST /api/chat/history" -> "addChatMessage"
          [] ep = "DELETE /api/chat/history" -> "clearChatHistory"
          [] ep = "GET /api/user/settings" -> "getUserSettings"
          [] ep = "POST /api/user/settings" -> "createOrUpdateUserSettings"]

\* the routes that read their fields from a JSON body
BodyEndpoints == {"POST /api/chat/history", "POST /api/user/settings"}

\* the routes that look for DATABASE_URL first
SettingsEndpoints == {"GET /api/user/settings", "POST /api/user/settings"}

\* the requests: the Authorization header (bearer: it starts with "Bearer "),
\* userId ("" when missing), role and content of a chat message, whether
\* DATABASE_URL is set, whether the body parses, whether the datastore answers
UserRequests ==
    [bearer : BOOLEAN,
     token : {t \in Tokens : t.uid # "adm"},
     userId : {"", "u1", "u2"},
     role : {"", "user", "system"},
     content : BOOLEAN,
     dbUrl : BOOLEAN,
     bodyOk : BOOLEAN,
     dbOk : BOOLEAN]

\* the required fields are there
HasFields(ep, req) ==
    /\ req.userId # ""
    /\ ep = "POST /api/chat/history" => (req.role # "" /\ req.content)

\* a mutation of the IDOR protection: no comparison
ForbiddenNever(userId, authenticatedUserId) == FALSE

\* the IDOR protection: userId !== authenticatedUserId
Forbidden(userId, authenticatedUserId) == userId # authenticatedUserId

Respond(status, access) == [status |-> status, access |-> access]

\* a handler of a user-scoped route, from the Authorization header to the
\* response
UserHandler(ep, req) ==
    LET decodedToken == verifyIdToken(req.token)
        access == [fn |-> DataAccess[ep], arg |-> req.userId]
    IN  IF ~req.bearer THEN Respond(401, NoAccess)
        ELSE IF ~decodedToken.ok THEN Respond(401, NoAccess)
        ELSE IF ep \in SettingsEndpoints /\ ~req.dbUrl THEN Respond(500, NoAccess)
        ELSE IF ep \in BodyEndpoints /\ ~req.bodyOk THEN Respond(500, NoAccess)
        ELSE IF ~HasFields(ep, req) THEN Respond(400, NoAccess)
        ELSE IF Forbidden(req.userId, decodedToken.uid) THEN Respond(403, NoAccess)
        ELSE IF ep = "POST /api/chat/history" /\ req.role \notin {"user", "assistant"}
             THEN Respond(400, NoAccess)
        ELSE IF ~req.dbOk THEN Respond(500, access)
        ELSE Respond(IF ep = "POST /api/chat/history" THEN 201 ELSE 200, access)

\* the frontend's part does not touch the bot's state
WebFrame ==
    /\ UNCHANGED dcaVars
    /\ UNCHANGED dbVars
    /\ UNCHANGED monVars
    /\ UNCHANGED <<client, limit, life>>

\* a request arrives at a route
Arrives(ep, req) ==
    /\ web = NoRequest
    /\ web' = [endpoint |-> ep, req |-> req, status |-> 0, access |-> NoAccess]
    /\ WebFrame

\* the request to a user-scoped route is handled
UserRequest ==
    /\ web.endpoint \in UserEndpoints
    /\ web.status = 0
    /\ web' = [web EXCEPT !.status = UserHandler(web.endpoint, web.req).status,
                          !.access = UserHandler(web.endpoint, web.req).access]
    /\ WebFrame

UserApiNext ==
    \/ /\ web = NoRequest
       /\ \E ep \in UserEndpoints, req \in UserRequests : Arrives(ep, req)
    \/ UserRequest

\* ---- the admin coin routes ----

AdminEndpoints ==
    {"POST /api/admin/coins/adjust", "GET /api/admin/coins/adjust",
     "GET /api/admin/coins/stats", "GET /api/admin/coins/users",
     "POST /api/admin/coins/gift-all"}

\* the coin operation of each route
CoinOperation ==
    [ep \in AdminEndpoints |->
        CASE ep = "POST /api/admin/coins/adjust" -> "adjustTestnetCoins"
          [] ep = "GET /api/admin/coins/adjust" -> "getUserCoinLogs"
          [] ep = "GET /api/admin/coins/stats" -> "getCoinSupplyStats"
          [] ep = "GET /api/admin/coins/users" -> "getCoinUsersList"
          [] ep = "POST /api/admin/coins/gift-all" -> "giftAllUsers"]

\* the requests: the Authorization header (missing, "Bearer " and a token, or
\* a token alone), whether the body parses, whether the fields the route
\* needs are valid, whether the target user exists, whether the datastore
\* answers
AdminRequests ==
    [header : {"none", "bearer", "plain"},
     token : Tokens,
     bodyOk : BOOLEAN,
     fieldsOk : BOOLEAN,
     targetFound : BOOLEAN,
     dbOk : BOOLEAN]

\* nobody
Null == [ok |-> FALSE, uid |-> ""]

\* the raw decode of a token: the uid its payload names, with no signature check
RawDecode(token) ==
    IF token.jwt /\ token.uid # "" THEN [ok |-> TRUE, uid |-> token.uid] ELSE Null

\* decodeToken of the adjust, stats and users routes, and the body of
\* verifyAdminToken: verifyIdToken, and when it throws the raw decode
decodeToken(token) ==
    IF verifyIdToken(token).ok THEN verifyIdToken(token) ELSE RawDecode(token)

\* verifyAdminToken: the header with or without "Bearer "
verifyAdminToken(req) ==
    IF req.header = "none" THEN Null ELSE decodeToken(req.token)

\* getAdminByFirebaseUid: the row of the admins table
getAdminByFirebaseUid(uid) == uid = "adm"

\* the handlers of adjust (POST and GET), stats and users
AdminHandler(ep, req) ==
    LET decoded == decodeToken(req.token)
        access == [fn |-> CoinOperation[ep], arg |-> decoded.uid]
    IN  IF req.header # "bearer" THEN Respond(401, NoAccess)
        ELSE IF ~decoded.ok THEN Respond(401, NoAccess)
        ELSE IF ~req.dbOk THEN Respond(500, NoAccess)
        ELSE IF ~getAdminByFirebaseUid(decoded.uid) THEN Respond(403, NoAccess)
        ELSE IF ep = "POST /api/admin/coins/adjust" /\ ~req.bodyOk THEN Respond(500, NoAccess)
        ELSE IF ep \in {"POST /api/admin/coins/adjust", "GET /api/admin/coins/adjust"}
                  /\ ~req.fieldsOk
             THEN Respond(400, NoAccess)
        ELSE IF ep = "POST /api/admin/coins/adjust" /\ ~req.targetFound
             THEN Respond(404, NoAccess)
        ELSE Respond(200, access)

\* the handler of gift-all
GiftAllHandler(req) ==
    LET admin == verifyAdminToken(req)
        access == [fn |-> CoinOperation["POST /api/admin/coins/gift-all"], arg |-> admin.uid]
    IN  IF ~admin.ok THEN Respond(401, NoAccess)
        ELSE IF ~(req.bodyOk /\ req.fieldsOk) THEN Respond(400, NoAccess)
        ELSE IF ~req.dbOk THEN Respond(500, access)
        ELSE Respond(200, access)

\* the request to an admin coin route is handled
AdminRequest ==
    /\ web.endpoint \in AdminEndpoints
    /\ web.status = 0
    /\ LET res == IF web.endpoint = "POST /api/admin/coins/gift-all"
                  THEN GiftAllHandler(web.req)
                  ELSE AdminHandler(web.endpoint, web.req)
       IN  web' = [web EXCEPT !.status = res.status, !.access = res.access]
    /\ WebFrame

AdminApiNext ==
    \/ /\ web = NoRequest
       /\ \E ep \in AdminEndpoints, req \in AdminRequests : Arrives(ep, req)
    \/ AdminRequest

(***************************************************************************)
(* Aggregator client                                                       *)
(***************************************************************************)
ClientCalls ==
    {"getCoins", "getPairs", "createQuote", "createOrder", "getOrderStatus", "createCheckout"}

\* the fields of a response body the model keeps
BodyFields == {"id", "status", "depositAmount", "hasMemo", "error"}

\* the response bodies: a JSON object, or an array of one such object, or an
\* empty array; every field by the kind of its value ("object": an object
\* {code, message}; "undefined": the field is missing)
Bodies ==
    [shape : {"object", "array", "emptyArray"},
     id : {"string", "number", "undefined"},
     status : {"string", "number", "undefined"},
     depositAmount : {"string", "null", "undefined"},
     hasMemo : {"boolean", "string", "undefined"},
     error : {"object", "string", "undefined"}]

Required(kinds) == kinds

Optional(kinds) == kinds \cup {"undefined"}

Nullable(kinds) == kinds \cup {"null"}

\* the zod schema of each call, on the fields of the model: the kinds a
\* field's value may have; a field the schema does not name is not listed
Schema ==
    [c \in ClientCalls |->
        CASE c = "getCoins" -> [hasMemo |-> Required({"boolean"})]
          [] c = "getPairs" -> [hasMemo |-> Required({"boolean"})]
          [] c = "createQuote" ->
                [id |-> Required({"string"}), depositAmount |-> Required({"string"}),
                 error |-> Optional({"object"})]
          [] c = "createOrder" ->
                [id |-> Required({"string"}), depositAmount |-> Required({"string"}),
                 status |-> Optional({"string"})]
          [] c = "getOrderStatus" ->
                [id |-> Required({"string"}), status |-> Required({"string"}),
                 depositAmount |-> Nullable({"string"}), error |-> Optional({"object"})]
          [] c = "createCheckout" ->
                [id |-> Required({"string"}), error |-> Optional({"object"})]]

\* the calls whose schema is an array of objects
ArrayCalls == {"getCoins", "getPairs"}

\* schema.safeParse(data).success
SafeParse(c, data) ==
    /\ IF c \in ArrayCalls THEN data.shape \in {"array", "emptyArray"}
       ELSE data.shape = "object"
    /\ data.shape # "emptyArray" => \A f \in DOMAIN Schema[c] : data[f] \in Schema[c][f]

\* result.data: z.object drops the fields the schema does not name
ParsedData(c, data) ==
    [f \in DOMAIN data |->
        IF f = "shape" \/ (f \in DOMAIN Schema[c] /\ data.shape # "emptyArray")
        THEN data[f] ELSE "undefined"]

\* the answers to a request: no answer at all (status 0), or an HTTP status,
\* with or without a Retry-After header, and a body
HttpStatuses == {0, 200, 400, 429, 500}

Answers == [status : HttpStatuses, retryAfter : BOOLEAN, data : Bodies]

\* what a call ends in: a value, or an Error and the properties it carries
\* (a property the Error does not have is "undefined")
Returned(value) ==
    [kind |-> "value", value |-> value, message |-> "undefined",
     httpStatus |-> "undefined", code |-> "undefined", retryAfter |-> "undefined"]

Thrown(message) ==
    [kind |-> "error", value |-> "undefined", message |-> message,
     httpStatus |-> "undefined", code |-> "undefined", retryAfter |-> "undefined"]

\* a mutation of validateResponse: the data is returned as it came
validateResponseUnchecked(c, data) == [ok |-> TRUE, data |-> data]

\* validateResponse: the parsed data, or a throw
validateResponse(c, data) ==
    IF SafeParse(c, data) THEN [ok |-> TRUE, data |-> ParsedData(c, data)]
    ELSE [ok |-> FALSE, data |-> data]

\* axios rejects with an AxiosError when there is no answer or the status is
\* not 2xx
IsAxiosError(answer) == answer.status \notin {200}

\* the calls that throw on an error field of a valid body
ErrorCheckedCalls == {"createQuote", "createCheckout"}

\* a call of the client, from the request to its return or throw
ClientCall(c, answer) ==
    IF IsAxiosError(answer)
    THEN Thrown(IF answer.status # 0 /\ answer.data.shape = "object"
                      /\ answer.data.error = "object"
                THEN "error.response.data.error.message" ELSE "Failed to")
    ELSE LET validated == validateResponse(c, answer.data)
         IN  IF ~validated.ok THEN Thrown("Failed to")
             ELSE IF c \in ErrorCheckedCalls /\ validated.data.error # "undefined"
                  THEN Thrown("Failed to")
             ELSE Returned(validated.data)

NoCall == [call |-> "none", answer |-> <<>>, outcome |-> <<>>, done |-> FALSE]

ClientInit == client = NoCall

\* the client's part does not touch the rest
ClientFrame ==
    /\ UNCHANGED dcaVars
    /\ UNCHANGED dbVars
    /\ UNCHANGED monVars
    /\ UNCHANGED <<web, limit, life>>

\* a call is made and the aggregator answers
Requested(c, answer) ==
    /\ client = NoCall
    /\ client' = [call |-> c, answer |-> answer, outcome |-> <<>>, done |-> FALSE]
    /\ ClientFrame

\* the call ends
Completes ==
    /\ client.call \in ClientCalls
    /\ ~client.done
    /\ client' = [client EXCEPT !.outcome = ClientCall(client.call, client.answer),
                                !.done = TRUE]
    /\ ClientFrame

ClientNext ==
    \/ /\ client = NoCall
       /\ \E c \in ClientCalls, answer \in Answers : Requested(c, answer)
    \/ Completes

(***************************************************************************)
(* Limit-order worker                                                      *)
(***************************************************************************)
\* minutes of the worker's time the model follows
MaxLimitTime == 16

MAX_STALENESS_MINUTES == 10

MAX_RETRIES == 5

BACKOFF_BASE == 2

BACKOFF_CAP_MINUTES == 30

\* the target price of the limit order, and the prices the cache can hold
TargetPrice == 2

Prices == {1, 3}

\* retry_after of an order that has not failed yet
NoRetryAfter == -1

RECURSIVE Power(_, _)
Power(b, n) == IF n = 0 THEN 1 ELSE b * Power(b, n - 1)

\* a mutation of backoff: one more minute with every failure
backoffLinear(retryCount) == Min(retryCount, BACKOFF_CAP_MINUTES)

\* backoff(retry_count): 1, 2, 4, 8, 16 minutes, at most 30
backoff(retryCount) == Min(Power(BACKOFF_BASE, retryCount - 1), BACKOFF_CAP_MINUTES)

\* a mutation of the staleness guard: every snapshot passes
IsStaleNever(snapshot, now) == FALSE

\* the staleness guard: now - snapshot.updated_at > MAX_STALENESS
IsStale(snapshot, now) == now - snapshot.updatedAt > MAX_STALENESS_MINUTES

\* the condition of the order on a price
ConditionMet(condition, price) ==
    IF condition = "above" THEN price > TargetPrice ELSE price < TargetPrice

\* step 1: armed, and retry_after null or in the past
IsArmedAndDue(l) ==
    /\ l.status = "armed"
    /\ l.retryAfter = NoRetryAfter \/ l.retryAfter <= l.now

LimitInit ==
    limit = [now |-> 0, status |-> "none", condition |-> "none",
             retryCount |-> 0, retryAfter |-> NoRetryAfter,
             snapshot |-> [price |-> 1, updatedAt |-> 0],
             orders |-> 0, attempts |-> 0, notified |-> FALSE, decision |-> "none"]

\* the worker's part does not touch the rest
LimitFrame ==
    /\ UNCHANGED dcaVars
    /\ UNCHANGED dbVars
    /\ UNCHANGED monVars
    /\ UNCHANGED <<web, client, life>>

\* a user arms a limit order
PlaceLimitOrder(condition) ==
    /\ limit.status = "none"
    /\ limit' = [limit EXCEPT !.status = "armed", !.condition = condition]
    /\ LimitFrame

\* the price refresh writes a snapshot
RefreshPrice(price) ==
    /\ limit.status # "none"
    /\ limit' = [limit EXCEPT !.snapshot = [price |-> price, updatedAt |-> limit.now]]
    /\ LimitFrame

\* a minute passes
LimitAdvanceTime ==
    /\ limit.status # "none"
    /\ limit.now < MaxLimitTime
    /\ limit' = [limit EXCEPT !.now = @ + 1]
    /\ LimitFrame

\* one tick of the worker on the order; transient: the quote or the order
\* creation fails with a network error, a 429 or a 5xx
LimitTick(transient) ==
    /\ limit.status # "none"
    /\ limit' =
         IF ~IsArmedAndDue(limit) THEN [limit EXCEPT !.decision = "idle"]
         ELSE IF IsStale(limit.snapshot, limit.now) THEN [limit EXCEPT !.decision = "stale"]
         ELSE IF ~ConditionMet(limit.condition, limit.snapshot.price)
              THEN [limit EXCEPT !.decision = "notMet"]
         ELSE IF ~transient
              THEN [limit EXCEPT !.status = "executing", !.orders = @ + 1,
                                 !.attempts = @ + 1, !.decision = "executed"]
         ELSE LET retryCount == limit.retryCount + 1
              IN  IF retryCount >= MAX_RETRIES
                  THEN [limit EXCEPT !.retryCount = retryCount, !.attempts = @ + 1,
                                     !.status = "dead", !.notified = TRUE,
                                     !.decision = "dead"]
                  ELSE [limit EXCEPT !.retryCount = retryCount, !.attempts = @ + 1,
                                     !.retryAfter = limit.now + backoff(retryCount),
                                     !.decision = "retry"]
    /\ LimitFrame

LimitNext ==
    \/ \E condition \in {"above", "below"} : PlaceLimitOrder(condition)
    \/ \E price \in Prices : RefreshPrice(price)
    \/ LimitAdvanceTime
    \/ \E transient \in BOOLEAN : LimitTick(transient)

(***************************************************************************)
(* Lifecycle: start() and stop()                                           *)
(***************************************************************************)
\* timers setInterval hands out to one component
MaxTimers == 4

\* start calls counted between two stop calls
MaxStarts == 3

Components == {"monitor", "dca"}

\* handle: tickTimer / intervalId (0: null); isRunning: the scheduler's flag;
\* armed: the intervals that fire; starts, last: the calls made (history)
LifeInit ==
    life = [c \in Components |->
               [handle |-> 0, isRunning |-> FALSE, armed |-> {}, nextTimer |-> 1,
                starts |-> 0, last |-> "none", fired |-> 0]]

LifeFrame ==
    /\ UNCHANGED dcaVars
    /\ UNCHANGED dbVars
    /\ UNCHANGED monVars
    /\ UNCHANGED <<web, client, limit>>

\* the call is noted (history)
Called(l, call) ==
    [l EXCEPT !.last = call,
              !.starts = IF call = "stop" THEN @ ELSE IF l.last = "stop" THEN 1 ELSE @ + 1,
              !.fired = 0]

\* setInterval: a new interval is armed and its handle kept
setInterval(l) ==
    [l EXCEPT !.handle = l.nextTimer, !.armed = @ \cup {l.nextTimer}, !.nextTimer = @ + 1]

\* clearInterval(handle), and the handle set to null
clearInterval(l) == [l EXCEPT !.armed = @ \ {l.handle}, !.handle = 0]

\* a mutation of OrderMonitor.start: no test of tickTimer
MonitorStartUnguarded(l) == setInterval(l)

\* OrderMonitor.start
MonitorStart(l) == IF l.handle # 0 THEN l ELSE setInterval(l)

\* OrderMonitor.stop
MonitorStop(l) == IF l.handle # 0 THEN clearInterval(l) ELSE l

\* DCAScheduler.start
SchedulerStart(l) ==
    IF l.isRunning THEN l ELSE setInterval([l EXCEPT !.isRunning = TRUE])

\* DCAScheduler.stop
SchedulerStop(l) ==
    [(IF l.handle # 0 THEN clearInterval(l) ELSE l) EXCEPT !.isRunning = FALSE]

StartCalled(c) ==
    /\ life[c].nextTimer <= MaxTimers
    /\ life[c].last = "stop" \/ life[c].starts < MaxStarts
    /\ life' = [life EXCEPT ![c] =
                    Called(IF c = "monitor" THEN MonitorStart(@) ELSE SchedulerStart(@),
                           "start")]
    /\ LifeFrame

StopCalled(c) ==
    /\ life[c].last # "none"
    /\ life' = [life EXCEPT ![c] =
                    Called(IF c = "monitor" THEN MonitorStop(@) ELSE SchedulerStop(@),
                           "stop")]
    /\ LifeFrame

\* an armed interval fires: the component's tick runs
IntervalFires(c) ==
    /\ life[c].armed # {}
    /\ life[c].fired = 0
    /\ life' = [life EXCEPT ![c].fired = Cardinality(life[c].armed)]
    /\ LifeFrame

LifeNext ==
    \/ \E c \in Components : StartCalled(c)
    \/ \E c \in Components : StopCalled(c)
    \/ \E c \in Components : IntervalFires(c)

(***************************************************************************)
(* Specifications                                                          *)
(***************************************************************************)
\* the state after construction: the scheduler instances, the tables, the monitor
Init == DcaInit /\ DbInit /\ MonInit /\ WebInit /\ ClientInit /\ LimitInit /\ LifeInit

SpecDCA == Init /\ [][DcaNext]_vars

\* time passes, the 60 s timer of every instance keeps firing, and the datastore
\* does not fail every claim transaction that holds rows
DcaFairness ==
    /\ WF_vars(MinutePasses)
    /\ \A i \in Instances : WF_vars(ProcessSchedulesSelect(i))
    /\ \A i \in Instances : WF_vars(ProcessSchedulesCommit(i) \/ ProcessSchedulesFail(i))
    /\ \A i \in Instances : SF_vars(ProcessSchedulesCommit(i) /\ sched[i].rows # {})

SpecDCAFair == Init /\ [][DcaNext]_vars /\ DcaFairness

\* the monitor's runs do not depend on the scheduler's users
MonitorInit == Init /\ wallet = [p \in Plans |-> TRUE]

SpecMonitor == MonitorInit /\ [][MonNext]_vars

(***************************************************************************)
(* Claims about the DCA scheduler                                          *)
(***************************************************************************)
\* the orders rows inserted by executions of plan p
OrdersOf(p) == {o \in OrderIds : orderPlan[o] = p /\ orders[o] # NoRow}

\* the instances whose open claim transaction holds plan p
Holders(p) == {i \in Instances : p \in sched[i].rows}

C2_SuccessReschedulesAtInterval ==
    [][\A p \in Plans :
          plans'[p].ordersExecuted # plans[p].ordersExecuted
             => plans'[p].nextExecutionAt = clock + plans[p].intervalHours * MinutesPerHour]_vars

\* C3: a plan's orders_executed equals the number of orders rows inserted by
\* its executions, every such row has its watched_orders row, and no orders
\* row exists without the increment.
C3_CountMatchesOrders ==
    /\ \A p \in Plans : plans[p].ordersExecuted = Cardinality(OrdersOf(p))
    /\ \A o \in OrderIds :
          /\ (orders[o] # NoRow) <=> (orderPlan[o] # 0)
          /\ (orders[o] # NoRow) => (watchedOrders[o] # NoRow)

\* C3 witness: one recording transaction was rolled back and a later one
\* committed
C3_Witness ==
    /\ nextOrderId = 3
    /\ plans[1].ordersExecuted = 1
    /\ orders[1] = NoRow
    /\ orders[2] = "pending"

\* C7: at no time are two executions of one plan in flight.
C7_ExecutionsSerial ==
    \A e1, e2 \in execs : e1.plan = e2.plan => e1 = e2

\* C8: a claim keeps the plan unselectable until claim + MAX_PROCESSING_TIME and
\* no longer: when the claiming instance crashes before rescheduling, the plan
\* still carries that sentinel, so it is due exactly from that minute on, and it
\* is eventually claimed again.
C8_CrashedClaimIsReclaimed ==
    /\ [](\A p \in Plans :
            orphan[p] =>
               /\ plans[p].nextExecutionAt = lastClaim[p].at + MAX_PROCESSING_TIME_MINUTES
               /\ IsDue(p, clock) <=> clock >= lastClaim[p].at + MAX_PROCESSING_TIME_MINUTES)
    /\ \A p \in Plans : orphan[p] ~> ~orphan[p]

\* C8 witness: the claim transaction of an instance has selected the plan that
\* a crash at minute 0 left with the sentinel
C8_Witness ==
    /\ orphan[1]
    /\ lastClaim[1].at = 0
    /\ clock >= MAX_PROCESSING_TIME_MINUTES
    /\ \E i \in Instances : 1 \in sched[i].rows

(***************************************************************************)
(* Claims about the order monitor                                          *)
(***************************************************************************)
\* the frames of pl whose pollOrder call ends in this step after a status change
Settling(pl, pl2) ==
    {f \in BagToSet(pl) : f.stage = "persist" /\ CopiesIn(f, pl2) < CopiesIn(f, pl)}

\* the number of getOrderStatus requests of order o in flight
Requests(pl, o) ==
    LET fs == {f \in BagToSet(pl) : f.order = o /\ f.stage = "request"}
    IN  BagCardinality([f \in fs |-> pl[f]])

\* the pairs of R followed by S
Compose(R, S) ==
    {x \in Statuses \X Statuses :
        \E m \in Statuses : <<x[1], m>> \in R /\ <<m, x[2]>> \in S}

\* the status pairs joined by one or more transitions of the aggregator
AggregatorReach ==
    LET T == AggregatorTransitions
    IN  T \cup Compose(T, T) \cup Compose(Compose(T, T), T)

\* C4: when the poll that observed a terminal status other than lastStatus
\* completes, the listener has been called with that status, the orders and
\* watched_orders rows carry it, and the order is no longer tracked.
C4_TerminalPollCompletes ==
    [][\A f \in Settling(polls, polls') :
          f.new \in TERMINAL_STATUSES =>
             /\ notified'[f.order] = f.new
             /\ orders[f.order] # NoRow => orders'[f.order] = f.new
             /\ watchedOrders[f.order] # NoRow => watchedOrders'[f.order] = f.new
             /\ f.order \notin KeysOf(tracked', heap')]_vars

\* C5: while now < pausedUntil, the end of the window the last 429 answer asks
\* for, a tick issues no getOrderStatus request.
C5_NoPollWhilePaused ==
    [][(mnow < pausedUntil /\ tickTimer /\ tickDue /\ tickTimer' /\ ~tickDue')
          => activePollCount' = activePollCount]_vars

\* C6: every orders row with a non-terminal status, of an order that trackOrder
\* or a DCA execution has registered, has its watched_orders row.
C6_WatchedRowExists ==
    \A o \in OrderIds :
        (orders[o] \in NonTerminal /\ Has(o) /\ adding[o] = 0) => watchedOrders[o] # NoRow

\* C9: once a poll has observed a terminal status of an order, no further
\* getOrderStatus request is issued for it.
C9_TerminalNeverRepolled ==
    [][\A o \in OrderIds : terminalSeen[o] => Requests(polls', o) <= Requests(polls, o)]_vars

\* C10: the transition a poll reports and persists starts from the status the
\* previous report ended in and follows the aggregator's state machine, and
\* neither a report nor a row ever leaves a terminal status.
C10_TransitionsInOrder ==
    [][\A f \in Settling(polls, polls') :
          /\ <<f.old, f.new>> \in AggregatorReach
          /\ notified[f.order] # NoRow => f.old = notified[f.order]
          /\ orders[f.order] \in TERMINAL_STATUSES => orders'[f.order] = orders[f.order]
          /\ watchedOrders[f.order] \in TERMINAL_STATUSES
                => watchedOrders'[f.order] = watchedOrders[f.order]]_vars

\* the frames that pollOrder calls have made in this step by observing a status
\* other than lastStatus
Observing(pl, pl2) ==
    {f \in BagToSet(pl2) : f.stage = "persist" /\ CopiesIn(f, pl2) > CopiesIn(f, pl)}

TrackOrders == {1, 2}

\* a caller calls untrackOrder
CallerUntracks(o) ==
    /\ Has(o)
    /\ tracked' = untrackOrder(tracked, heap, o)
    /\ heap' = Collect(heap, tracked', polls)
    /\ UNCHANGED <<mnow, tickTimer, tickDue, activePollCount, polls, loader, adding,
                   orderCreatedAt, aggStatus, notified, pausedUntil, terminalSeen>>
    /\ UNCHANGED dbVars
    /\ UNCHANGED dcaVars
    /\ UNCHANGED auxVars

TrackNext ==
    \/ \E o \in TrackOrders : CreateOrderEntry(o)
    \/ \E o \in TrackOrders : trackOrder(o)
    \/ \E o \in TrackOrders, ok \in BOOLEAN : addWatchedOrder(o, ok)
    \/ \E o \in TrackOrders : CallerUntracks(o)
    \/ AdvanceTime

\* callers that track and untrack orders, with no poll going on
SpecTrack == MonitorInit /\ [][TrackNext]_vars

\* the entries of the tracked Map for order o
EntriesOf(o) == {k \in 1 .. Len(tracked) : heap[tracked[k]].orderId = o}

\* C12: once trackOrder(o); trackOrder(o); untrackOrder(o); trackOrder(o), or
\* any sequence of such calls that ends with trackOrder(o), is over, inserts
\* included, o has exactly one watched_orders row and exactly one tracked
\* entry.
C12_TrackLeavesOneRowOneEntry ==
    \A o \in OrderIds :
        (Has(o) /\ adding[o] = 0) =>
            /\ watchedOrders[o] # NoRow
            /\ Cardinality(EntriesOf(o)) = 1

\* C13: an insert that raises an error other than a conflict makes its
\* trackOrder call fail.  adding[o] counts the inserts of trackOrder calls that
\* have returned to their callers without an error, so none of these inserts
\* ends without the row being there.
C13_InsertErrorFailsTrackOrder ==
    [][\A o \in OrderIds : adding'[o] < adding[o] => watchedOrders'[o] # NoRow]_vars

\* the rows loadPendingOrders reads in this state
PendingRows == PendingOrders \cup PendingWatched

\* C14: loadPendingOrders is idempotent.  In every state, loading the rows of
\* the datastore a second time right after a first time changes nothing of the
\* Map; and a loadPendingOrders call that ends having read only rows of orders
\* that are keys of the Map leaves the Map and every entry's fields as they were.
C14_LoadPendingIdempotent ==
    /\ [](CanLoad(PendingRows) =>
            LET once == LoadBoth(PendingRows)
            IN  LoadBothFrom(once, PendingRows) = once)
    /\ [][(/\ loader.pc = "reading"
           /\ loader'.pc = "idle"
           /\ {row.id : row \in loader.rows} \subseteq KeysOf(tracked, heap))
             => (tracked' = tracked /\ heap' = heap)]_vars

\* C14 witness: a loadPendingOrders call has read the rows of the orders in the
\* Map, among them an entry that only an earlier loadPendingOrders call can
\* have made (trackOrder enters pending) and that no poll has touched since
C14_Witness ==
    /\ loader.pc = "reading"
    /\ loader.rows # {}
    /\ loader.rows = PendingRows
    /\ {row.id : row \in loader.rows} = KeysOf(tracked, heap)
    /\ \E r \in Range(tracked) : heap[r].lastStatus = "waiting" /\ heap[r].lastChecked = 0

\* the Map of a fresh monitor
EmptyMap == [t |-> <<>>, h |-> [r \in ObjIds |-> NullObj]]

\* the step is a tick
IsTick == tickTimer /\ tickDue /\ tickTimer' /\ ~tickDue'

BatchOrders == {1, 2}

BatchNext ==
    \/ \E o \in BatchOrders : CreateOrderEntry(o)
    \/ \E o \in BatchOrders : AggregatorAdvance(o, "expired")
    \/ AdvanceTime
    \/ start
    \/ \E rec \in BOOLEAN : loadPendingOrders(rec)
    \/ \E all \in {"both", "orders", "none"} : LoadedPending(all)
    \/ tick
    \/ \E f \in BagToSet(polls), a \in Failures : pollOrderThrows(f, a)
    \/ \E f \in BagToSet(polls) : pollOrderReturns(f)
    \/ \E f \in BagToSet(polls), okO \in BOOLEAN, okW \in BOOLEAN, throws \in BOOLEAN :
          pollOrderSettles(f, okO, okW, throws)

\* two orders of the orders table, loaded by loadPendingOrders and polled by
\* tick and reconcile
SpecBatch == MonitorInit /\ [][BatchNext]_vars


\* the step is the end of reconcile's loadPendingOrders and the start of its polls
IsReconcile == loader.pc = "reading" /\ loader.reconcile /\ loader'.pc = "idle"

\* C16: reconcile, after its loadPendingOrders, starts exactly one poll of
\* every tracked order, whatever its lastChecked and its backoff interval,
\* and no order leaves the Map by it; and no step ends or moves more than one
\* poll, so a poll that fails leaves the other polls of reconcile going.
C16_ReconcilePollsEveryTracked ==
    [][ /\ IsReconcile =>
             /\ KeysOf(tracked, heap) \subseteq KeysOf(tracked', heap')
             /\ \A k \in 1 .. Len(tracked') :
                   CopiesIn(NewFrame(heap', tracked'[k]), polls')
                      = CopiesIn(NewFrame(heap', tracked'[k]), polls) + 1
             /\ BagCardinality(polls') = BagCardinality(polls) + Len(tracked')
             /\ activePollCount' = activePollCount + Len(tracked')
        /\ BagCardinality(polls (-) polls') <= 1 ]_vars

\* C16 witness: with no timer ever armed, two orders that were already polled
\* at this instant, so not due, are being polled again, after a poll failed
\* on a 429 answer
C16_Witness ==
    /\ ~tickTimer
    /\ Len(tracked) = 2
    /\ \A r \in Range(tracked) :
          /\ heap[r].lastChecked = mnow
          /\ BagIn(NewFrame(heap, r), polls)
    /\ pausedUntil = mnow + DEFAULT_RETRY_AFTER


(***************************************************************************)
(* The monitor with polls that stay in flight                              *)
(***************************************************************************)
\* the most getOrderStatus calls this specification holds in flight
MaxCapPolls == 6

CapNext ==
    \/ \E o \in MonOrders : CreateOrderEntry(o)
    \/ AdvanceTime
    \/ start
    \/ \E rec \in BOOLEAN : loadPendingOrders(rec)
    \/ \E all \in {"both", "orders", "none"} : LoadedPendingWithin(all, MaxCapPolls)
    \/ tickWithin(MaxCapPolls)
    \/ \E f \in BagToSet(polls), a \in Failures : pollOrderThrows(f, a)
    \/ \E f \in BagToSet(polls) : pollOrderReturns(f)

\* one order whose status stays what it is, polled by tick and by reconcile
SpecCap == MonitorInit /\ [][CapNext]_vars

\* C17: the number of getOrderStatus calls in flight never exceeds
\* MAX_CONCURRENT, in any interleaving of tick and reconcile.
C17_InFlightWithinCap ==
    /\ activePollCount <= MAX_CONCURRENT
    /\ BagCardinality(polls) <= MAX_CONCURRENT


\* C18: when getOrderStatus throws, the Map and its entries stay as they are
\* (the order stays tracked, with its lastStatus and its lastChecked, so it
\* is due when it was), no update of a row is started, the rows and the
\* listener's record stay as they are, and the poll is counted out.
C18_FailedPollChangesNothing ==
    [][\A f \in BagToSet(polls), a \in Failures :
          pollOrderThrows(f, a) =>
             /\ tracked' = tracked
             /\ \A r \in Range(tracked) : heap'[r] = heap[r]
             /\ Observing(polls, polls') = {}
             /\ orders' = orders /\ watchedOrders' = watchedOrders
             /\ notified' = notified
             /\ activePollCount' = activePollCount - 1]_vars

\* C18 witness: the order moved on at the aggregator, its only poll failed on
\* a 429 answer in this second, and it is tracked as it was loaded
C18_Witness ==
    /\ pausedUntil = mnow + DEFAULT_RETRY_AFTER
    /\ polls = EmptyBag /\ activePollCount = 0
    /\ aggStatus[1] = "waiting" /\ orders[1] = "pending"
    /\ notified[1] = NoRow
    /\ \E r \in Range(tracked) :
          heap[r] = [orderId |-> 1, createdAt |-> orderCreatedAt[1],
                     lastChecked |-> 0, lastStatus |-> "pending"]


(***************************************************************************)
(* The monitor with its timer firing and its promises settling             *)
(***************************************************************************)
RetryNext ==
    \/ \E o \in MonOrders : DcaOrderRecorded(o)
    \/ \E o \in MonOrders : AggregatorAdvance(o, "waiting")
    \/ AdvanceTime
    \/ start
    \/ \E rec \in BOOLEAN : loadPendingOrders(rec)
    \/ \E all \in {"both", "orders", "none"} : LoadedPending(all)
    \/ tick
    \/ \E f \in BagToSet(polls), a \in Failures : pollOrderThrows(f, a)
    \/ \E f \in BagToSet(polls) : pollOrderReturns(f)
    \/ \E f \in BagToSet(polls), okO \in BOOLEAN, okW \in BOOLEAN, throws \in BOOLEAN :
          pollOrderSettles(f, okO, okW, throws)

\* time passes and the interval timer fires; a query, a request and an update
\* that were started settle; an update that is started again and again
\* resolves at some time
RetryFairness ==
    /\ WF_vars(AdvanceTime)
    /\ WF_vars(tick)
    /\ WF_vars(\E all \in {"both", "orders", "none"} : LoadedPending(all))
    /\ WF_vars(\E f \in BagToSet(polls) : pollOrderReturns(f))
    /\ WF_vars(\E f \in BagToSet(polls), okO \in BOOLEAN, okW \in BOOLEAN :
                  pollOrderSettles(f, okO, okW, FALSE))
    /\ SF_vars(\E f \in BagToSet(polls) : pollOrderSettles(f, TRUE, TRUE, FALSE))

\* one recorded order that moves to "waiting", polled by a monitor whose
\* timer keeps firing
SpecRetryFair == MonitorInit /\ [][RetryNext]_vars /\ RetryFairness

\* the status the monitor observed last for a tracked order
LastStatusOf(o) == heap[CHOOSE r \in Range(tracked) : heap[r].orderId = o].lastStatus

\* C19: when the monitor runs, with a tick still to come, and a row of a
\* tracked order does not carry the status the monitor observed last, the
\* update is made again: the order's rows come to carry that status (or the
\* order leaves the Map).
C19_FailedUpdateRetried ==
    \A o \in OrderIds :
       (/\ Has(o) /\ tickTimer /\ mnow = StartTime
        /\ orders[o] # NoRow /\ watchedOrders[o] # NoRow
        /\ (orders[o] # LastStatusOf(o) \/ watchedOrders[o] # LastStatusOf(o)))
          ~> (~Has(o) \/ (orders[o] = LastStatusOf(o) /\ watchedOrders[o] = LastStatusOf(o)))


\* C20: whatever the listener does, also when it throws: the poll that called
\* it is the only one that ends, the other polls of the batch go on and the
\* timer stays armed; the counter of polls in flight is the number of polls
\* in flight; and the Map holds an order with a terminal lastStatus only
\* while the poll that observed it has not completed.
C20_ListenerThrowKeepsBookkeeping ==
    /\ [][Settling(polls, polls') # {} =>
             /\ BagCardinality(polls (-) polls') = 1
             /\ tickTimer' = tickTimer /\ tickDue' = tickDue]_vars
    /\ [](activePollCount = BagCardinality(polls))
    /\ [](\A r \in Range(tracked) :
             heap[r].lastStatus \in TERMINAL_STATUSES =>
                \E f \in BagToSet(polls) : f.obj = r /\ f.stage = "persist")


(***************************************************************************)
(* Claims about the scheduler's executions                                 *)
(***************************************************************************)
\* C21: when an execution records its order (the transaction of
\* executeSchedule commits), the order is in the monitor's tracked Map.
C21_ExecutedOrderRegistered ==
    [][\A o \in OrderIds :
          orderPlan'[o] # orderPlan[o] => o \in KeysOf(tracked', heap')]_vars


C24_FutureOrFreshSentinel ==
    \A p \in Plans :
       plans[p].isActive =>
          \/ plans[p].nextExecutionAt > clock
          \/ /\ lastClaim[p].n > 0
             /\ plans[p].nextExecutionAt = lastClaim[p].lock
             /\ clock - lastClaim[p].at <= MAX_PROCESSING_TIME_MINUTES

\* C24, amended: every next_execution_at the scheduler writes is strictly in
\* the future when it is written, and the one a claim writes is the sentinel
\* now + MAX_PROCESSING_TIME_MINUTES; so a plan whose next_execution_at is the
\* sentinel of a claim less than MAX_PROCESSING_TIME_MINUTES old is not due.
\* A plan is due (next_execution_at <= now) from its deadline to its next claim.
C24_WrittenDeadlinesInFuture ==
    /\ [][\A p \in Plans :
             plans'[p].nextExecutionAt # plans[p].nextExecutionAt =>
                /\ plans'[p].nextExecutionAt > clock'
                /\ lastClaim'[p] # lastClaim[p] =>
                      plans'[p].nextExecutionAt = clock + MAX_PROCESSING_TIME_MINUTES]_vars
    /\ [](\A p \in Plans :
             (/\ plans[p].isActive /\ lastClaim[p].n > 0
              /\ plans[p].nextExecutionAt = lastClaim[p].lock
              /\ clock - lastClaim[p].at < MAX_PROCESSING_TIME_MINUTES)
                => ~IsDue(p, clock))

\* C24 witness: minutes after its claim the plan carries the claim's
\* sentinel while its execution is going on
C24_Witness ==
    /\ lastClaim[1].n = 1
    /\ plans[1].nextExecutionAt = lastClaim[1].lock
    /\ clock > lastClaim[1].at
    /\ clock - lastClaim[1].at < MAX_PROCESSING_TIME_MINUTES
    /\ \E e \in execs : e.plan = 1 /\ e.stage = "createOrder"


(***************************************************************************)
(* Claims about the API routes                                             *)
(***************************************************************************)
\* requests to the user-scoped routes
SpecUserApi == MonitorInit /\ [][UserApiNext]_vars

\* the request handled last carries a token the identity provider verifies
ValidToken == web.req.bearer /\ web.req.token.sig

\* C25 as stated: the data-access function of a user-scoped route is called
\* only for a verified token whose uid is the request's userId, and a request
\* with a verified token and another userId is answered 403 without a read or
\* a write.
C25_OtherUserGets403 ==
    (web.endpoint \in UserEndpoints /\ web.status # 0) =>
       /\ web.access # NoAccess => (ValidToken /\ web.req.userId = web.req.token.uid)
       /\ (ValidToken /\ web.req.userId # "" /\ web.req.userId # web.req.token.uid) =>
             (web.status = 403 /\ web.access = NoAccess)

\* C25, amended: the data-access function is called only for a verified token
\* whose uid is the request's userId; a request with a verified token and
\* another userId makes no read and no write, and it is answered 403 when it
\* passes the checks the handler makes before the comparison, else 500
\* (DATABASE_URL not set at a settings route, a body that does not parse) or
\* 400 (role or content missing in POST /api/chat/history).
C25_OtherUserNoAccess ==
    (web.endpoint \in UserEndpoints /\ web.status # 0) =>
       /\ web.access # NoAccess =>
             (ValidToken /\ web.req.userId = web.req.token.uid
                /\ web.access = [fn |-> DataAccess[web.endpoint], arg |-> web.req.token.uid])
       /\ (ValidToken /\ web.req.userId # "" /\ web.req.userId # web.req.token.uid) =>
             /\ web.access = NoAccess
             /\ web.status =
                   IF \/ web.endpoint \in SettingsEndpoints /\ ~web.req.dbUrl
                      \/ web.endpoint \in BodyEndpoints /\ ~web.req.bodyOk
                   THEN 500
                   ELSE IF web.endpoint = "POST /api/chat/history"
                             /\ (web.req.role = "" \/ ~web.req.content)
                   THEN 400 ELSE 403

\* C25 witness: u1's verified token with userId u2 on a complete chat
\* message: 403 and no write
C25_Witness ==
    /\ web.endpoint = "POST /api/chat/history"
    /\ ValidToken /\ web.req.token.uid = "u1" /\ web.req.userId = "u2"
    /\ web.req.role = "user" /\ web.req.content /\ web.req.bodyOk /\ web.req.dbOk
    /\ web.status = 403 /\ web.access = NoAccess


\* requests to the admin coin routes
SpecAdminApi == MonitorInit /\ [][AdminApiNext]_vars

\* C26: an admin coin route performs its operation only for a request whose
\* bearer token the identity provider verifies, and answers 401 to a token
\* it does not verify.
C26_AdminOpsNeedVerifiedToken ==
    (web.endpoint \in AdminEndpoints /\ web.status # 0) =>
       /\ web.access # NoAccess => web.req.token.sig
       /\ ~web.req.token.sig => web.status = 401


(***************************************************************************)
(* Claims about the aggregator client                                      *)
(***************************************************************************)
\* calls of the aggregator client
SpecClient == MonitorInit /\ [][ClientNext]_vars

\* C27: a call of the client returns a value only when the response body
\* satisfies the call's schema, and the value satisfies it too; on a body
\* that does not satisfy the schema the call ends in an error.
C27_OnlyValidatedBodiesReturned ==
    client.done =>
       /\ client.outcome.kind = "value" =>
             /\ SafeParse(client.call, client.answer.data)
             /\ SafeParse(client.call, client.outcome.value)
       /\ ~SafeParse(client.call, client.answer.data) =>
             /\ client.outcome.kind = "error"
             /\ client.outcome.value = "undefined"

\* C27 witness: a 200 answer to getOrderStatus whose status field is a
\* number ended in an error, with the rest of the body as the schema asks
C27_Witness ==
    /\ client.done /\ client.call = "getOrderStatus"
    /\ client.answer.status = 200
    /\ client.answer.data.shape = "object" /\ client.answer.data.id = "string"
    /\ client.answer.data.status = "number"
    /\ client.answer.data.depositAmount = "null" /\ client.answer.data.error = "undefined"
    /\ client.outcome.kind = "error"


\* C28: when the aggregator answers with a 4xx or 5xx status, the call ends
\* in an error that carries the HTTP status, the message and, when the
\* answer has them, the aggregator's error code and the Retry-After value.
C28_ErrorCarriesStatusAndRetryAfter ==
    (client.done /\ client.answer.status \in {400, 429, 500}) =>
       /\ client.outcome.kind = "error"
       /\ client.outcome.message # "undefined"
       /\ client.outcome.httpStatus # "undefined"
       /\ (client.answer.data.shape = "object" /\ client.answer.data.error = "object")
             => client.outcome.code # "undefined"
       /\ client.answer.retryAfter => client.outcome.retryAfter # "undefined"


(***************************************************************************)
(* Claims about the limit-order worker                                     *)
(***************************************************************************)
\* the limit-order worker on one order
SpecLimit == MonitorInit /\ [][LimitNext]_vars

\* a tick of the worker
IsLimitTick == \E transient \in BOOLEAN : LimitTick(transient)

MaxPrice == 7

\* a mutation of the trigger test: a price equal to the target triggers
isLimitOrderTriggeredInclusive(currentPrice, targetPrice, condition) ==
    IF condition = "above" THEN currentPrice >= targetPrice
    ELSE currentPrice <= targetPrice

\* priceMonitor.isLimitOrderTriggered(currentPrice, targetPrice, condition)
isLimitOrderTriggered(currentPrice, targetPrice, condition) ==
    IF condition = "above" THEN currentPrice > targetPrice
    ELSE currentPrice < targetPrice

\* the trigger test is applied to a price, a target and a condition
EvaluateTrigger(currentPrice, targetPrice, condition) ==
    /\ limit.status = "none"
    /\ limit' = [status |-> "evaluated", currentPrice |-> currentPrice,
                 targetPrice |-> targetPrice, condition |-> condition,
                 triggered |-> isLimitOrderTriggered(currentPrice, targetPrice, condition)]
    /\ LimitFrame

TriggerNext ==
    \E currentPrice \in 0 .. MaxPrice, targetPrice \in 0 .. MaxPrice,
       condition \in {"above", "below"} :
          EvaluateTrigger(currentPrice, targetPrice, condition)

\* the trigger test on every price, target and condition
SpecTrigger == MonitorInit /\ [][TriggerNext]_vars

\* C31: the trigger test is strict: below triggers exactly when the price
\* is under the target, above exactly when it is over it, and a price equal
\* to the target triggers neither.
C31_TriggerTestStrict ==
    limit.status = "evaluated" =>
       /\ limit.condition = "below" =>
             (limit.triggered <=> limit.targetPrice - limit.currentPrice >= 1)
       /\ limit.condition = "above" =>
             (limit.triggered <=> limit.currentPrice - limit.targetPrice >= 1)
       /\ limit.currentPrice = limit.targetPrice => ~limit.triggered

\* C31 witness: a price equal to the target was tested under below and did
\* not trigger
C31_Witness ==
    /\ limit.status = "evaluated"
    /\ limit.condition = "below"
    /\ limit.currentPrice = limit.targetPrice
    /\ ~limit.triggered


(***************************************************************************)
(* Claims about the lifecycle of the components                            *)
(***************************************************************************)
\* C32: when stop() of the monitor returns, no poll is in flight (and so no
\* request, persistence update or listener call of the monitor follows).
C32_StopDrainsInFlightPolls ==
    [][stop => (polls' = EmptyBag /\ activePollCount' = 0)]_vars


\* start and stop calls on the two components
SpecLife == MonitorInit /\ [][LifeNext]_vars

\* C33: whatever start and stop calls were made, a component has at most
\* one interval armed, the one whose handle it holds, and after a stop call
\* it has none, however many start calls came before.
C33_StartIdempotent ==
    \A c \in Components :
       /\ Cardinality(life[c].armed) <= 1
       /\ life[c].armed \subseteq {life[c].handle}
       /\ life[c].fired <= 1
       /\ life[c].last = "stop" => (life[c].armed = {} /\ life[c].fired = 0)

\* C33 witness: start was called three times on each component, one loop is
\* ticking on the scheduler, and one stop has ended the monitor's
C33_Witness ==
    /\ life["dca"].starts = 3 /\ life["dca"].last = "start"
    /\ Cardinality(life["dca"].armed) = 1 /\ life["dca"].fired = 1
    /\ life["monitor"].starts = 3 /\ life["monitor"].last = "stop"
    /\ life["monitor"].armed = {}


(***************************************************************************)
(* Claims about the retry budget and the recording of DCA executions       *)
(***************************************************************************)
\* C34: a plan whose every attempt fails is attempted a bounded number of
\* times: with a budget of two retries, a plan that has executed no order
\* is claimed at most three times.
C34_RetriesWithinBudget ==
    \A p \in Plans : plans[p].ordersExecuted = 0 => lastClaim[p].n <= 3


(***************************************************************************)
(* The polling intervals over the life of an order                         *)
(***************************************************************************)
\* the seconds after the monitor's start at which something happens: around
\* the first interval and around the ages of 5 min, 30 min and 2 h
Instants == {10, 20, 25, 285, 300, 1740, 1800, 6900, 7200, 7800}

\* time passes until one of the instants
TimeReaches(a) ==
    /\ StartTime + a > mnow
    /\ mnow' = StartTime + a
    /\ tickDue' = tickTimer
    /\ UNCHANGED <<tickTimer, tracked, heap, activePollCount, polls, loader,
                   adding, orderCreatedAt, aggStatus, notified, pausedUntil, terminalSeen>>
    /\ UNCHANGED dbVars
    /\ UNCHANGED dcaVars
    /\ UNCHANGED auxVars

\* the monitor ticking on one order that stays pending for hours
AgeNext ==
    \/ \E o \in MonOrders : CreateOrderEntry(o)
    \/ start
    \/ \E o \in MonOrders : trackOrder(o)
    \/ \E o \in MonOrders, ok \in BOOLEAN : addWatchedOrder(o, ok)
    \/ \E a \in Instants : TimeReaches(a)
    \/ tick
    \/ \E f \in BagToSet(polls) : pollOrderReturns(f)

SpecAge == MonitorInit /\ [][AgeNext]_vars

\* the interval of the claim, in seconds
C35_Interval(age) ==
    CASE age < 300 -> 15
      [] age >= 300 /\ age < 1800 -> 60
      [] age >= 1800 /\ age < 7200 -> 300
      [] age >= 7200 -> 900

\* C35: a tick starts a poll for exactly the tracked orders with
\* now - lastChecked >= interval(age), interval being 15 s, 60 s, 5 min and
\* 15 min for the ages under 5 min, under 30 min, under 2 h and from 2 h on
\* (the concurrency cap leaves room for every order here).
C35_TickSelectsDueOrders ==
    [][tick =>
          \A r \in Range(tracked) :
             LET polled == CopiesIn(NewFrame(heap, r), polls')
                              = CopiesIn(NewFrame(heap, r), polls) + 1
                 unpolled == CopiesIn(NewFrame(heap, r), polls')
                                = CopiesIn(NewFrame(heap, r), polls)
             IN  IF mnow - heap[r].lastChecked >= C35_Interval(mnow - heap[r].createdAt)
                 THEN polled ELSE unpolled]_vars

\* C35 witness: the order is two hours old, was polled five minutes ago, a
\* tick has just run and no poll is in flight
C35_Witness ==
    /\ tickTimer /\ ~tickDue
    /\ polls = EmptyBag
    /\ \E r \in Range(tracked) :
          /\ mnow - heap[r].createdAt = 7200
          /\ mnow - heap[r].lastChecked = 300


(***************************************************************************)
(* Claims about the broadcast gift                                         *)
(***************************************************************************)
\* C36: giftAllUsers runs only for a caller whose uid has a row in the
\* admins table.
C36_GiftAllOnlyForAdmins ==
    (web.endpoint = "POST /api/admin/coins/gift-all" /\ web.access.fn = "giftAllUsers")
       => getAdminByFirebaseUid(web.access.arg)


(***************************************************************************)
(* The monitor with polls that fail, under a timer that keeps firing       *)
(***************************************************************************)
\* the interval of the timer elapses.  The orders of this specification are
\* never polled with success, so they are due at every time, and the time
\* is left as it is
IntervalElapses ==
    /\ tickTimer
    /\ ~tickDue
    /\ tickDue' = TRUE
    /\ UNCHANGED <<mnow, tickTimer, tracked, heap, activePollCount, polls, loader,
                   adding, orderCreatedAt, aggStatus, notified, pausedUntil, terminalSeen>>
    /\ UNCHANGED dbVars
    /\ UNCHANGED dcaVars
    /\ UNCHANGED auxVars

StarveNext ==
    \/ \E o \in BatchOrders : CreateOrderEntry(o)
    \/ start
    \/ loadPendingOrders(FALSE)
    \/ \E all \in {"both", "orders", "none"} : LoadedPendingWithin(all, MAX_CONCURRENT)
    \/ IntervalElapses
    \/ tickWithin(MAX_CONCURRENT)
    \/ \E f \in BagToSet(polls), a \in Failures : pollOrderThrows(f, a)

\* the timer keeps firing, the tick it calls runs, a query that was started
\* settles, and of the requests in flight one fails, again and again
StarveFairness ==
    /\ WF_vars(IntervalElapses)
    /\ WF_vars(tickWithin(MAX_CONCURRENT))
    /\ WF_vars(\E all \in {"both", "orders", "none"} : LoadedPendingWithin(all, MAX_CONCURRENT))
    /\ WF_vars(\E f \in BagToSet(polls), a \in Failures : pollOrderThrows(f, a))

\* two orders whose polls all fail, under a monitor that keeps ticking
SpecStarveFair == MonitorInit /\ [][StarveNext]_vars /\ StarveFairness

\* C37: under a timer that keeps firing, a tracked order that is due comes
\* to have a poll dispatched, also while the polls of other orders fail.
C37_DueOrderEventuallyPolled ==
    \A o \in BatchOrders :
       (tickTimer /\ \E r \in Range(tracked) : heap[r].orderId = o /\ IsDuePoll(heap[r]))
          ~> (\E f \in BagToSet(polls) : f.order = o)


(***************************************************************************)
(* The monitor with two orders and reconciles on top of each other         *)
(***************************************************************************)
\* the most getOrderStatus calls this specification holds in flight
MaxSlicePolls == 7

SliceNext ==
    \/ \E o \in BatchOrders : CreateOrderEntry(o)
    \/ start
    \/ \E rec \in BOOLEAN : loadPendingOrders(rec)
    \/ \E all \in {"both", "orders", "none"} : LoadedPendingWithin(all, MaxSlicePolls)
    \/ IntervalElapses
    \/ tickWithin(MaxSlicePolls)
    \/ \E f \in BagToSet(polls), a \in Failures : pollOrderThrows(f, a)

\* two orders whose polls fail or stay in flight, polled by tick and by
\* reconcile
SpecSlice == MonitorInit /\ [][SliceNext]_vars

\* C38: a tick dispatches at most max(0, MAX_CONCURRENT - activePollCount)
\* polls, and none when activePollCount is at or above MAX_CONCURRENT.
C38_TickWithinRoom ==
    [][tickWithin(MaxSlicePolls) =>
          BagCardinality(polls') - BagCardinality(polls)
             <= Max(0, MAX_CONCURRENT - activePollCount)]_vars


\* C39: no order has two polls in flight at the same time.
C39_OnePollPerOrder ==
    \A o \in OrderIds :
       BagCardinality([f \in {g \in BagToSet(polls) : g.order = o} |-> polls[f]]) <= 1


\* C40: when an execution that has created its order at the aggregator ends,
\* with its transaction committed or failed, the order has its orders row
\* and the plan's orders_executed has counted it.
C40_CreatedOrderIsRecorded ==
    [][\A e \in execs, ok \in BOOLEAN :
          CommitExecution(e, ok) =>
             /\ orders'[e.orderId] # NoRow
             /\ plans'[e.plan].ordersExecuted = plans[e.plan].ordersExecuted + 1]_vars

====
